---- MODULE Spec2Model ----
(***************************************************************************)
(* Model of the two periodic scanners of tennis-odds-alert:                *)
(*   - main.py        run_scan  (odds scanner, cache sent_cache.json)      *)
(*   - nba_alerts.py  main      (statistics scanner, nba_alerts_cache.json)*)
(* Prices and probabilities are exact rationals <<num, den>> (den > 0),    *)
(* times are whole seconds.                                                *)
(***************************************************************************)
EXTENDS Integers, Sequences, FiniteSets, Bags, TLC

VARIABLES prog, cfg, clock, ticks, file, run, okLog, failLog, arg, res

vars == <<prog, cfg, clock, ticks, file, run, okLog, failLog, arg, res>>

(***************************************************************************)
(* Bounds of the model.                                                    *)
(***************************************************************************)
MaxRuns == 2
MaxEvents == 1
MaxTicks == 1
MaxPlayers == 2
MaxSeqLen == 6
MaxQuotes == 3

(***************************************************************************)
(* Exact rational arithmetic standing for the float arithmetic of main.py. *)
(***************************************************************************)
RECURSIVE GCD(_, _)
GCD(a, b) == IF b = 0 THEN a ELSE GCD(b, a % b)

Abs(x) == IF x < 0 THEN -x ELSE x

Rat(n, d) ==
    LET g == GCD(Abs(n), Abs(d))
        s == IF d < 0 THEN -1 ELSE 1
    IN  IF n = 0 THEN <<0, 1>> ELSE <<(s * n) \div g, (s * d) \div g>>

RatAdd(x, y) == Rat(x[1] * y[2] + y[1] * x[2], x[2] * y[2])
RatSub(x, y) == Rat(x[1] * y[2] - y[1] * x[2], x[2] * y[2])
RatMul(x, y) == Rat(x[1] * y[1], x[2] * y[2])
RatDiv(x, y) == Rat(x[1] * y[2], x[2] * y[1])
RatLt(x, y) == x[1] * y[2] < y[1] * x[2]
RatLe(x, y) == x[1] * y[2] <= y[1] * x[2]
RatZero == <<0, 1>>
RatOne == <<1, 1>>

(***************************************************************************)
(* A quoted price as the JSON document carries it: a number, a string      *)
(* (non-numeric) or null/absent.                                           *)
(***************************************************************************)
Num(n, d) == [t |-> "num", v |-> Rat(n, d)]
StrPrice == [t |-> "str", v |-> RatZero]
NoPrice == [t |-> "none", v |-> RatZero]

\* Python truthiness of a price: None and 0 are falsy, a string is truthy.
Truthy(p) == \/ p.t = "str"
             \/ p.t = "num" /\ p.v[1] # 0

(***************************************************************************)
(* main.py configuration.                                                  *)
(***************************************************************************)
SPORT_KEYS == <<"tennis_atp", "tennis_wta", "tennis_atp_challenger", "tennis_wta_challenger">>
SHARP_BOOKS == <<"pinnacle", "betfair_exchange">>
TARGET_BOOKS == {"bet365", "williamhill", "unibet", "betway", "bwin", "888sport", "betfair"}
MIN_EDGE_PCT == 3
MIN_DECIMAL_ODDS == <<3, 2>>
MAX_START_TIME_HOURS == 48
COOLDOWN_MINUTES == 90
cooldown_seconds == 12 * 3600

(***************************************************************************)
(* kelly_fraction, lines 48-55.                                            *)
(***************************************************************************)
\* the fraction returned without the floor at zero
kelly_fraction_NoFloor(decimal_odds, fair_prob) ==
    LET b == RatSub(decimal_odds, RatOne)
    IN  IF RatLe(b, RatZero) THEN RatZero
        ELSE RatDiv(RatSub(RatMul(b, fair_prob), RatSub(RatOne, fair_prob)), b)

kelly_fraction(decimal_odds, fair_prob) ==
    LET b == RatSub(decimal_odds, RatOne)
    IN  IF RatLe(b, RatZero) THEN RatZero
        ELSE LET q == RatSub(RatOne, fair_prob)
                 edge == RatSub(RatMul(b, fair_prob), q)
                 f == RatDiv(edge, b)
             IN  IF RatLt(RatZero, f) THEN f ELSE RatZero

(***************************************************************************)
(* pick_fair_prob(book_lines): book_lines is an insertion-ordered dict,    *)
(* here a sequence of <<book, price>> pairs with distinct books.           *)
(* The result is [st |-> "ok", basis, fair] or [st |-> "raise"] when a     *)
(* comparison of a string price with 1.0 raises TypeError.                 *)
(***************************************************************************)
Books(bl) == {bl[i][1] : i \in 1..Len(bl)}
PriceOf(bl, b) == LET i == CHOOSE j \in 1..Len(bl) : bl[j][1] = b IN bl[i][2]

PickRaise == [st |-> "raise", basis |-> "", fair |-> RatZero]
PickOk(b, f) == [st |-> "ok", basis |-> b, fair |-> f]

\* a price of exactly 1.0 taken as valid
GtOne_AtLeastOne(p) == IF p.t = "str" THEN "raise"
                       ELSE IF p.t = "num" /\ RatLe(RatOne, p.v) THEN "yes" ELSE "no"

\* x and x > 1.0 ; "raise" when x is a (truthy) string
GtOne(p) == IF p.t = "str" THEN "raise"
            ELSE IF Truthy(p) /\ RatLt(RatOne, p.v) THEN "yes" ELSE "no"

\* imps = [1.0 / x for x in book_lines.values() if x and x > 1.0]
RECURSIVE Imps(_, _)
Imps(bl, i) ==
    IF i > Len(bl) THEN [st |-> "ok", s |-> <<>>]
    ELSE LET g == GtOne(bl[i][2])
             rest == Imps(bl, i + 1)
         IN  IF g = "raise" \/ rest.st = "raise" THEN [st |-> "raise", s |-> <<>>]
             ELSE IF g = "yes" THEN [st |-> "ok", s |-> <<RatDiv(RatOne, bl[i][2].v)>> \o rest.s]
             ELSE rest

RECURSIVE RatSum(_, _)
RatSum(s, i) == IF i > Len(s) THEN RatZero ELSE RatAdd(s[i], RatSum(s, i + 1))

Consensus(bl) ==
    LET im == Imps(bl, 1)
    IN  IF im.st = "raise" THEN PickRaise
        ELSE IF im.s = <<>> THEN PickOk("", RatZero)
        ELSE PickOk("consensus", RatDiv(RatSum(im.s, 1), <<Len(im.s), 1>>))

RECURSIVE SharpScan(_, _)
SharpScan(bl, i) ==
    IF i > Len(SHARP_BOOKS) THEN Consensus(bl)
    ELSE LET sb == SHARP_BOOKS[i]
         IN  IF sb \in Books(bl)
             THEN LET g == GtOne(PriceOf(bl, sb))
                  IN  IF g = "raise" THEN PickRaise
                      ELSE IF g = "yes" THEN PickOk(sb, RatDiv(RatOne, PriceOf(bl, sb).v))
                      ELSE SharpScan(bl, i + 1)
             ELSE SharpScan(bl, i + 1)

pick_fair_prob(book_lines) == SharpScan(book_lines, 1)

(***************************************************************************)
(* nba_alerts.py pattern matcher.                                          *)
(***************************************************************************)
\* only the first three games tested against the threshold
qualifies_pattern_a_FirstThree(points) ==
    /\ Len(points) = 5
    /\ \A i \in 1..3 : points[i] >= 20
    /\ points[5] < 20

qualifies_pattern_a(points) ==
    /\ Len(points) = 5
    /\ \A i \in 1..4 : points[i] >= 20
    /\ points[5] < 20

qualifies_pattern_b(points) ==
    /\ Len(points) = 5
    /\ \A i \in 1..Len(points) : points[i] >= 20

\* main, lines 200-204: pattern B is tested first, then pattern A
Classify(points) ==
    IF qualifies_pattern_b(points) THEN "5 jogos consecutivos com 20+ pontos"
    ELSE IF qualifies_pattern_a(points) THEN "4 jogos com 20+ seguidos de um <20"
    ELSE "None"

(***************************************************************************)
(* event_key: the f-string renders price with 3 and fair_prob with 5       *)
(* decimals; a rendered number is kept as the integer count of its last    *)
(* decimal unit (round-half-even, as Python formats an exact value).       *)
(***************************************************************************)
RECURSIVE Pow10(_)
Pow10(n) == IF n = 0 THEN 1 ELSE 10 * Pow10(n - 1)

\* the digits beyond the precision dropped
Fmt_Truncate(x, digits) == (x[1] * Pow10(digits)) \div x[2]

Fmt(x, digits) ==
    LET scaled == x[1] * Pow10(digits)
        q == scaled \div x[2]
        rem == scaled % x[2]
    IN  IF 2 * rem > x[2] THEN q + 1
        ELSE IF 2 * rem = x[2] THEN (IF q % 2 = 0 THEN q ELSE q + 1)
        ELSE q

event_key(ev_id, book, pick_name, price, fair_prob, basis) ==
    <<ev_id, book, pick_name, Fmt(price, 3), Fmt(fair_prob, 5), basis>>

(***************************************************************************)
(* The cache document.  json.load yields any JSON value: a mapping (kind   *)
(* "map", keys DOMAIN m, the keys in bad carry a non-numeric value) or a   *)
(* non-mapping value such as a list (kind "list").                         *)
(***************************************************************************)
EmptyMap == [kind |-> "map", m |-> <<>>, bad |-> {}]
ListDoc == [kind |-> "list", m |-> <<>>, bad |-> {}]
BadValueDoc(k) == [kind |-> "map", m |-> (k :> 0), bad |-> {k}]

Absent == [st |-> "absent", doc |-> EmptyMap]
Garbage == [st |-> "garbage", doc |-> EmptyMap]
Json(d) == [st |-> "json", doc |-> d]

\* try: sent = json.load(f)  except Exception: sent = {}
LoadCache(f) == IF f.st = "json" THEN f.doc ELSE EmptyMap

HasKey(sent, k) == sent.kind = "map" /\ k \in DOMAIN sent.m

\* sent.get(k, 0) followed by now - last: "raise" on a non-mapping document
\* (AttributeError) or a non-numeric value (TypeError)
GetLast(sent, k) ==
    IF sent.kind # "map" THEN [st |-> "raise", last |-> 0]
    ELSE IF k \in sent.bad THEN [st |-> "raise", last |-> 0]
    ELSE IF k \in DOMAIN sent.m THEN [st |-> "ok", last |-> sent.m[k]]
    ELSE [st |-> "ok", last |-> 0]

\* sent[k] = now
Record(sent, k, now) ==
    [sent EXCEPT !.m = (k :> now) @@ sent.m, !.bad = sent.bad \ {k}]

\* main.py line 221 and nba_alerts.py line 198
InCooldown(now, last, cd) == (now - last) < cd

(***************************************************************************)
(* Snapshot events of the odds API.  An event is                           *)
(*   [id, commence, lines]: id is the "id" field or NoId when the field    *)
(*   is missing; commence is the parsed "commence_time"; lines lists, in   *)
(*   document order, each bookmaker's h2h outcomes as <<key, prices>>      *)
(*   with prices a mapping name -> price.                                  *)
(***************************************************************************)
NoId == "<missing>"
Aware(t) == [t |-> "aware", v |-> t]
Naive == [t |-> "naive", v |-> 0]
BadTime == [t |-> "bad", v |-> 0]

SharpEven == <<"pinnacle", ("A" :> Num(2, 1) @@ "B" :> Num(2, 1))>>

EvValue == [id |-> "e1", commence |-> Aware(1700100000),
            lines |-> <<SharpEven, <<"bet365", ("A" :> Num(5, 2) @@ "B" :> Num(8, 5))>> >>]
EvTwo == [id |-> "e1", commence |-> Aware(1700100000),
          lines |-> <<SharpEven, <<"bet365", ("A" :> Num(5, 2) @@ "B" :> Num(6, 5))>>,
                      <<"williamhill", ("A" :> Num(19, 10) @@ "B" :> Num(12, 5))>> >>]
EvNoId == [EvValue EXCEPT !.id = NoId]
EvBadTime == [EvValue EXCEPT !.commence = BadTime]
EvNaive == [EvValue EXCEPT !.commence = Naive]
EvFar == [EvValue EXCEPT !.commence = Aware(1701000000)]
EvStrSharp == [id |-> "e2", commence |-> Aware(1700100000),
               lines |-> << <<"pinnacle", ("A" :> StrPrice @@ "B" :> Num(2, 1))>> >>]
EvStrTarget == [id |-> "e1", commence |-> Aware(1700100000),
                lines |-> <<SharpEven, <<"bet365", ("A" :> Num(5, 2) @@ "B" :> Num(8, 5))>>,
                            <<"betway", ("A" :> StrPrice @@ "B" :> Num(8, 5))>> >>]
EvOneLeg == [id |-> "e3", commence |-> Aware(1700100000),
             lines |-> << <<"pinnacle", ("A" :> Num(2, 1) @@ "B" :> NoPrice)>>,
                          <<"bet365", ("A" :> Num(5, 2) @@ "B" :> NoPrice)>> >>]
EvThree == [id |-> "e4", commence |-> Aware(1700100000),
            lines |-> <<SharpEven, <<"bet365", ("A" :> Num(5, 2) @@ "C" :> Num(8, 5))>> >>]
EvNoLines == [id |-> "e5", commence |-> Aware(1700100000),
              lines |-> << <<"bet365", ("A" :> Num(5, 2))>> >>]

\* starts 48 hours and one second after the first clock reading
EvLate == [id |-> "e6", commence |-> Aware(1700172801),
           lines |-> <<SharpEven, <<"bet365", ("A" :> Num(5, 2) @@ "B" :> Num(8, 5))>> >>]
\* the sharp quotes carry a margin: 1/2.0 + 1/1.8 > 1
EvMargin == [id |-> "e7", commence |-> Aware(1700100000),
             lines |-> << <<"pinnacle", ("A" :> Num(2, 1) @@ "B" :> Num(9, 5))>>,
                          <<"bet365", ("A" :> Num(21, 10) @@ "B" :> Num(8, 5))>>,
                          <<"williamhill", ("A" :> Num(11, 5) @@ "B" :> Num(8, 5))>> >>]

Events == {EvValue, EvTwo, EvNoId, EvBadTime, EvNaive, EvFar, EvStrSharp,
           EvStrTarget, EvOneLeg, EvThree, EvNoLines}

\* every quote of outcome B is 1.0
EvFlatLeg == [id |-> "e8", commence |-> Aware(1700100000),
              lines |-> << <<"pinnacle", ("A" :> Num(2, 1) @@ "B" :> Num(1, 1))>>,
                           <<"bet365", ("A" :> Num(5, 2) @@ "B" :> Num(1, 1))>> >>]

\* the events a single scan is applied to
ScanEvents == Events \cup {EvLate, EvMargin, EvFlatLeg}

(***************************************************************************)
(* run_scan, lines 164-199: the quotes of one event up to the candidate    *)
(* loop.  Result: [st |-> "skip"], [st |-> "raise", err] or                *)
(* [st |-> "ok", slots] with slots the (pick, book) iterations of lines    *)
(* 202-208 in order.  swap is the iteration order of the participants set  *)
(* (a set of str: the order changes with the hash seed of the process).    *)
(***************************************************************************)
PreSkip == [st |-> "skip", err |-> "none", slots |-> <<>>]
PreRaise(e) == [st |-> "raise", err |-> e, slots |-> <<>>]

\* lines 165-176: only bookmakers whose h2h market has >= 2 outcomes
Lines(ev) == SelectSeq(ev.lines, LAMBDA l : Cardinality(DOMAIN l[2]) >= 2)

Participants(lines) == UNION {DOMAIN lines[i][2] : i \in 1..Len(lines)}

\* d.get(p)
DGet(d, p) == IF p \in DOMAIN d THEN d[p] ELSE NoPrice

\* {bk: d.get(p) for bk, d in lines.items() if d.get(p)}
PricesFor(lines, p) ==
    LET kept == SelectSeq(lines, LAMBDA l : Truthy(DGet(l[2], p)))
    IN  [i \in 1..Len(kept) |-> <<kept[i][1], DGet(kept[i][2], p)>>]

SlotsFor(pick, fair, prices, basis) ==
    [i \in 1..Len(prices) |->
        [pick |-> pick, fair |-> fair, book |-> prices[i][1],
         price |-> prices[i][2], basis |-> basis]]

\* the event skipped only when both estimates are zero
Quotes_SkipWhenBothZero(ev, swap) ==
    LET lines == Lines(ev)
        parts == Participants(lines)
    IN  IF lines = <<>> THEN PreSkip
        ELSE IF Cardinality(parts) # 2 THEN PreSkip
        ELSE LET x == CHOOSE n \in parts : TRUE
                 y == CHOOSE n \in parts : n # x
                 p1 == IF swap THEN y ELSE x
                 p2 == IF swap THEN x ELSE y
                 p1_prices == PricesFor(lines, p1)
                 p2_prices == PricesFor(lines, p2)
                 r1 == pick_fair_prob(p1_prices)
                 r2 == pick_fair_prob(p2_prices)
             IN  IF r1.st = "raise" \/ r2.st = "raise" THEN PreRaise("event")
                 ELSE IF RatLe(r1.fair, RatZero) /\ RatLe(r2.fair, RatZero) THEN PreSkip
                 ELSE LET s == RatAdd(r1.fair, r2.fair)
                          fair1 == RatDiv(r1.fair, s)
                          fair2 == RatDiv(r2.fair, s)
                      IN  [st |-> "ok", err |-> "none",
                           slots |-> SlotsFor(p1, fair1, p1_prices, r1.basis)
                                     \o SlotsFor(p2, fair2, p2_prices, r2.basis)]

Quotes(ev, swap) ==
    LET lines == Lines(ev)
        parts == Participants(lines)
    IN  IF lines = <<>> THEN PreSkip
        ELSE IF Cardinality(parts) # 2 THEN PreSkip
        ELSE LET x == CHOOSE n \in parts : TRUE
                 y == CHOOSE n \in parts : n # x
                 p1 == IF swap THEN y ELSE x
                 p2 == IF swap THEN x ELSE y
                 p1_prices == PricesFor(lines, p1)
                 p2_prices == PricesFor(lines, p2)
                 r1 == pick_fair_prob(p1_prices)
                 r2 == pick_fair_prob(p2_prices)
             IN  IF r1.st = "raise" \/ r2.st = "raise" THEN PreRaise("event")
                 ELSE IF RatLe(r1.fair, RatZero) \/ RatLe(r2.fair, RatZero) THEN PreSkip
                 ELSE LET s == RatAdd(r1.fair, r2.fair)
                          fair1 == RatDiv(r1.fair, s)
                          fair2 == RatDiv(r2.fair, s)
                      IN  [st |-> "ok", err |-> "none",
                           slots |-> SlotsFor(p1, fair1, p1_prices, r1.basis)
                                     \o SlotsFor(p2, fair2, p2_prices, r2.basis)]

(***************************************************************************)
(* run_scan, lines 206-219: the filters of one iteration of the candidate  *)
(* loop and the fingerprint.  They read the event only, so the candidate   *)
(* loop of an event is the sequence of its iterations that pass the        *)
(* filters, each either a candidate with key k or the exception raised     *)
(* there (nothing after an exception is run).                              *)
(***************************************************************************)
Edge(price, fair_prob) == RatSub(RatMul(price, fair_prob), RatOne)

NoKey == <<>>
Filtered == [st |-> "skip", k |-> NoKey, err |-> "none"]
Cand(k) == [st |-> "cand", k |-> k, err |-> "none"]
Raises(e) == [st |-> "raise", k |-> NoKey, err |-> e]

FilterSlot(ev_id, sl) ==
    IF RatLe(sl.fair, RatZero) THEN Filtered
    ELSE IF sl.book \notin TARGET_BOOKS THEN Filtered
    ELSE IF sl.price.t = "str" THEN Raises("event")
    ELSE IF ~Truthy(sl.price) \/ RatLt(sl.price.v, MIN_DECIMAL_ODDS) THEN Filtered
    ELSE IF RatLt(Edge(sl.price.v, sl.fair), <<MIN_EDGE_PCT, 100>>) THEN Filtered
    ELSE IF ev_id = NoId THEN Raises("event")
    ELSE Cand(event_key(ev_id, sl.book, sl.pick, sl.price.v, sl.fair, sl.basis))

RECURSIVE UpToRaise(_, _)
UpToRaise(items, i) ==
    IF i > Len(items) THEN <<>>
    ELSE IF items[i].st = "raise" THEN <<items[i]>>
    ELSE <<items[i]>> \o UpToRaise(items, i + 1)

Candidates(ev_id, slots) ==
    LET all == [i \in 1..Len(slots) |-> FilterSlot(ev_id, slots[i])]
    IN  UpToRaise(SelectSeq(all, LAMBDA it : it.st # "skip"), 1)

\* lines 164-219 for every event of the universe and both orders
Plans ==
    [ev \in ScanEvents |-> [swap \in BOOLEAN |->
        LET q == Quotes(ev, swap)
        IN  [st |-> q.st, err |-> q.err, items |-> Candidates(ev.id, q.slots)]]]

\* the window counted in days instead of hours
TooFar_Days(commence, now) == commence - now > MAX_START_TIME_HOURS * 86400

\* lines 155-219: the start time is tested first
TooFar(commence, now) == commence - now > MAX_START_TIME_HOURS * 3600

Prelude(ev, now, swap) ==
    IF ev.commence.t = "bad" THEN [st |-> "skip", err |-> "none", items |-> <<>>]
    ELSE IF ev.commence.t = "naive" THEN [st |-> "raise", err |-> "event", items |-> <<>>]
    ELSE IF TooFar(ev.commence.v, now) THEN [st |-> "skip", err |-> "none", items |-> <<>>]
    ELSE Plans[ev][swap]

(***************************************************************************)
(* The cooldown test.                                                      *)
(***************************************************************************)
\* main.py lines 220-222: "raise", "suppressed" or "send"
SentCheck(sent, k, now) ==
    LET g == GetLast(sent, k)
    IN  IF g.st = "raise" THEN "raise"
        ELSE IF InCooldown(now, g.last, COOLDOWN_MINUTES * 60) THEN "suppressed"
        ELSE "send"

\* any recent entry of the player suppresses
NbaCheck_ByPlayer(sent_cache, key, now_ts) ==
    IF sent_cache.kind # "map" THEN "raise"
    ELSE IF \E k \in DOMAIN sent_cache.m :
               k[1] = key[1] /\ InCooldown(now_ts, sent_cache.m[k], cooldown_seconds)
    THEN "suppressed"
    ELSE "send"

\* nba_alerts.py lines 197-199
NbaCheck(sent_cache, key, now_ts) ==
    LET g == GetLast(sent_cache, key)
    IN  IF g.st = "raise" THEN "raise"
        ELSE IF InCooldown(now_ts, g.last, cooldown_seconds) THEN "suppressed"
        ELSE "send"

(***************************************************************************)
(* State of the runs.  run[r] is the r-th invocation of the process:       *)
(*   pc      "idle" (not started), "sports" (the for loop over SPORT_KEYS  *)
(*           is about to fetch key si), "events" (left events of the       *)
(*           snapshot remain), "players" (nba loop, left names remain),    *)
(*           "save", "done",                                               *)
(*           "raised" (an exception left the function; err is "event" for  *)
(*           one raised by an event record, "cache" for one raised by the  *)
(*           loaded document, "save" for a failed write), "aborted" (the module level configuration check       *)
(*           raised)                                                       *)
(*   sent    the in-memory mapping, now the clock reading of the run,      *)
(*   writes  the number of completed writes of the cache file.             *)
(* The memory of a process is gone when it exits.                          *)
(* okLog is the bag of delivered notifications [r, k, t]; failLog is the   *)
(* set of [r, k]: a send of k in run r was not delivered and k was not     *)
(* delivered later in r (kept for the latest two runs).                    *)
(***************************************************************************)
Runs == 1..MaxRuns

IdleRun == [pc |-> "idle", si |-> 1, left |-> 0,
            sent |-> EmptyMap, now |-> 0, err |-> "none", writes |-> 0]

Scanning(r) == run[r].pc \in {"sports", "events", "players"}
Ended(r) == run[r].pc \in {"done", "raised", "aborted"}
Started(r) == run[r].pc # "idle"

Cooldown == IF prog = "nba" THEN cooldown_seconds ELSE COOLDOWN_MINUTES * 60

\* the fingerprint of the value alert of EvValue, and an nba key
KeyValue == event_key("e1", "bet365", "A", <<5, 2>>, <<1, 2>>, "pinnacle")
KeyFive == <<237, <<20, 20, 20, 20, 20>> >>

FileInits ==
    {Absent, Garbage, Json(ListDoc),
     Json(BadValueDoc(IF prog = "nba" THEN KeyFive ELSE KeyValue))}

\* ODDS_API_KEY / the Telegram variables may be unset; nba_alerts.py reads
\* the Telegram variables only
Configs == IF prog = "nba" THEN {"ok", "no_telegram"}
           ELSE {"ok", "no_telegram", "no_api_key"}

InitCommon ==
    /\ cfg \in Configs
    /\ clock = 1700000000
    /\ ticks = 0
    /\ file \in FileInits
    /\ run = [r \in Runs |-> IdleRun]
    /\ okLog = EmptyBag
    /\ failLog = {}
    /\ arg = <<>>
    /\ res = <<>>

Init ==
    /\ prog \in {"odds", "nba"}
    /\ InitCommon

\* The loop steps of a run touch its own memory only, so the loops of
\* different runs are taken in run order, and the clock (read at the start
\* of a run only) advances after the first start, while no loop is in progress.
Turn(r) == \A q \in 1..(r - 1) : ~Scanning(q)

Tick ==
    /\ ticks < MaxTicks
    /\ Started(1)
    /\ \E r \in Runs : ~Started(r)
    /\ \A r \in Runs : ~Scanning(r)
    /\ \E d \in {Cooldown - 1, Cooldown} : clock' = clock + d
    /\ ticks' = ticks + 1
    /\ UNCHANGED <<prog, cfg, file, run, okLog, failLog, arg, res>>

\* runs are started in order; exclusive: no other run is in progress
MayStart(r, exclusive) ==
    /\ run[r].pc = "idle"
    /\ IF r = 1 THEN TRUE ELSE Started(r - 1)
    /\ exclusive => \A q \in Runs \ {r} : ~Started(q) \/ Ended(q)

\* the logs after run r delivered the keys of the sequence oks and failed
\* to deliver the keys of the set fails
RECURSIVE BagOfSeq(_, _)
BagOfSeq(q, i) == IF i > Len(q) THEN EmptyBag ELSE SetToBag({q[i]}) (+) BagOfSeq(q, i + 1)

OkLogAfter(log, r, now, oks) ==
    log (+) BagOfSeq([i \in 1..Len(oks) |-> [r |-> r, k |-> oks[i], t |-> now]], 1)

FailLogAfter(log, r, oks, fails) ==
    {e \in log \cup {[r |-> r, k |-> k] : k \in fails} :
        ~(e.r = r /\ \E i \in 1..Len(oks) : oks[i] = e.k)}

Recent(log, r) == {e \in log : e.r >= r - 1}

Exit(rec, pc, e) == [IdleRun EXCEPT !.pc = pc, !.err = e, !.writes = rec.writes]
Raise(rec, e) == Exit(rec, "raised", e)

(***************************************************************************)
(* main.py                                                                 *)
(***************************************************************************)
\* lines 34-41: the module raises RuntimeError before run_scan is called
ConfigAbort(r, exclusive) ==
    /\ prog = "odds"
    /\ MayStart(r, exclusive)
    /\ cfg # "ok"
    /\ run' = [run EXCEPT ![r] = Exit(run[r], "aborted", "config")]
    /\ UNCHANGED <<prog, cfg, clock, ticks, file, okLog, failLog, arg, res>>

\* lines 136-145
Load(r, exclusive) ==
    /\ prog = "odds"
    /\ MayStart(r, exclusive)
    /\ cfg = "ok"
    /\ run' = [run EXCEPT ![r] = [IdleRun EXCEPT !.pc = "sports",
                                                  !.sent = LoadCache(file),
                                                  !.now = clock]]
    /\ failLog' = Recent(failLog, r)
    /\ UNCHANGED <<prog, cfg, clock, ticks, file, okLog, arg, res>>

\* where the loops stand once the current step is over
Advance(rec) ==
    IF rec.left > 0 THEN [rec EXCEPT !.pc = "events"]
    ELSE IF rec.si < Len(SPORT_KEYS) THEN [rec EXCEPT !.pc = "sports", !.si = rec.si + 1]
    ELSE [rec EXCEPT !.pc = "save"]

\* lines 147-152: api.odds raises (after its retries) or returns n events
Fetch(r) ==
    /\ prog = "odds"
    /\ run[r].pc = "sports"
    /\ Turn(r)
    /\ \/ run' = [run EXCEPT ![r] = Advance(run[r])]
       \/ \E n \in 0..MaxEvents :
             run' = [run EXCEPT ![r] = Advance([run[r] EXCEPT !.left = n])]
    /\ UNCHANGED <<prog, cfg, clock, ticks, file, okLog, failLog, arg, res>>

\* the entry written whether or not send_telegram returned
AfterSend_Always(sent, k, now, telegram_ok) == Record(sent, k, now)

\* lines 236-244: telegram_ok is whether send_telegram returned
AfterSend(sent, k, now, telegram_ok) ==
    IF telegram_ok THEN Record(sent, k, now) ELSE sent

\* lines 220-244 for one iteration that passed the filters; st carries
\* the mapping, the keys delivered (oks) and not delivered (fails) so far
\* and the exception that ended the loop, if any
SlotStep(st, it, now, telegram_ok) ==
    IF st.err # "none" THEN st
    ELSE IF it.st = "raise" THEN [st EXCEPT !.err = it.err]
    ELSE LET c == SentCheck(st.sent, it.k, now)
         IN  IF c = "raise" THEN [st EXCEPT !.err = "cache"]
             ELSE IF c = "suppressed" THEN st
             ELSE [st EXCEPT !.sent = AfterSend(st.sent, it.k, now, telegram_ok),
                             !.oks = IF telegram_ok THEN Append(st.oks, it.k) ELSE st.oks,
                             !.fails = IF telegram_ok THEN st.fails \ {it.k}
                                       ELSE st.fails \cup {it.k}]

\* lines 202-244: the candidate loop; telegram[i] is the outcome of the
\* send of the i-th iteration, should it be reached
RECURSIVE RunSlots(_, _, _, _, _)
RunSlots(items, i, st, now, telegram) ==
    IF i > Len(items) THEN st
    ELSE RunSlots(items, i + 1, SlotStep(st, items[i], now, telegram[i]), now, telegram)

\* lines 154-244 for the next event of the snapshot
ScanEvent(r) ==
    /\ prog = "odds"
    /\ run[r].pc = "events"
    /\ Turn(r)
    /\ \E pre \in {Prelude(ev, run[r].now, swap) : ev \in Events, swap \in BOOLEAN} :
          LET rec == [run[r] EXCEPT !.left = run[r].left - 1]
              items == pre.items
          IN  IF pre.st = "raise"
              THEN /\ run' = [run EXCEPT ![r] = Raise(rec, pre.err)]
                   /\ UNCHANGED <<okLog, failLog>>
              ELSE \E telegram \in [1..Len(items) -> BOOLEAN] :
                     LET st == RunSlots(items, 1,
                                        [sent |-> rec.sent, oks |-> <<>>, fails |-> {},
                                         err |-> "none"],
                                        rec.now, telegram)
                     IN  /\ run' = [run EXCEPT ![r] =
                                      IF st.err # "none" THEN Raise(rec, st.err)
                                      ELSE Advance([rec EXCEPT !.sent = st.sent])]
                         /\ okLog' = OkLogAfter(okLog, r, rec.now, st.oks)
                         /\ failLog' = FailLogAfter(failLog, r, st.oks, st.fails)
    /\ UNCHANGED <<prog, cfg, clock, ticks, file, arg, res>>

\* the entries of the file kept when the mapping is written
MergeDoc(old, new) ==
    IF old.kind = "map" /\ new.kind = "map"
    THEN [kind |-> "map", m |-> new.m @@ old.m, bad |-> old.bad \ DOMAIN new.m]
    ELSE new

SaveOutcomes_Merge(rec, f) ==
    {[file |-> Json(MergeDoc(LoadCache(f), rec.sent)),
      run |-> Exit([rec EXCEPT !.writes = rec.writes + 1], "done", "none")],
     [file |-> f, run |-> Raise(rec, "save")],
     [file |-> Garbage, run |-> Raise(rec, "save")]}

\* the entries older than the cooldown dropped from the mapping written
Expire(sent, now) ==
    LET keep == {k \in DOMAIN sent.m : now - sent.m[k] < COOLDOWN_MINUTES * 60}
    IN  [sent EXCEPT !.m = [k \in keep |-> sent.m[k]], !.bad = sent.bad \cap keep]

SaveOutcomes_Expire(rec, f) ==
    {[file |-> Json(Expire(rec.sent, rec.now)),
      run |-> Exit([rec EXCEPT !.writes = rec.writes + 1], "done", "none")],
     [file |-> f, run |-> Raise(rec, "save")],
     [file |-> Garbage, run |-> Raise(rec, "save")]}

\* lines 246-250: the write is not guarded; a failed open leaves the file,
\* a failed dump leaves a truncated one
SaveOutcomes(rec, f) ==
    {[file |-> Json(rec.sent), run |-> Exit([rec EXCEPT !.writes = rec.writes + 1], "done", "none")],
     [file |-> f, run |-> Raise(rec, "save")],
     [file |-> Garbage, run |-> Raise(rec, "save")]}

Save(r) ==
    /\ prog = "odds"
    /\ run[r].pc = "save"
    /\ \E o \in SaveOutcomes(run[r], file) :
          /\ file' = o.file
          /\ run' = [run EXCEPT ![r] = o.run]
    /\ UNCHANGED <<prog, cfg, clock, ticks, okLog, failLog, arg, res>>

(***************************************************************************)
(* nba_alerts.py                                                           *)
(***************************************************************************)
\* what get_player_id and get_last_five_games_points can return:
\* 0 / [] on any failure, else an id / exactly five point totals
PlayerIdResults == {0, 237}
PointsResults == {<<>>, <<20, 20, 20, 20, 20>>, <<22, 25, 30, 21, 19>>,
                  <<19, 25, 30, 21, 15>>, <<25, 30, 21, 22, 18>>}

\* lines 53-69: the message is delivered only when the credentials are set
\* and the POST succeeds; every failure is swallowed, nothing is returned
Delivered(config, http_ok) == config # "no_telegram" /\ http_ok

\* lines 169-187; the number of monitored names comes from NBA_PLAYERS
NbaLoad(r, exclusive) ==
    /\ prog = "nba"
    /\ MayStart(r, exclusive)
    /\ \E n \in 1..MaxPlayers :
          run' = [run EXCEPT ![r] = [IdleRun EXCEPT !.pc = "players",
                                                    !.left = n,
                                                    !.sent = LoadCache(file),
                                                    !.now = clock]]
    /\ failLog' = Recent(failLog, r)
    /\ UNCHANGED <<prog, cfg, clock, ticks, file, okLog, arg, res>>

NbaAdvance(rec) == IF rec.left > 0 THEN rec ELSE [rec EXCEPT !.pc = "save"]

\* lines 205-208: sent_cache[key] = now_ts follows send_telegram(msg)
NbaAfterSend(sent, key, now, delivered) == Record(sent, key, now)

\* lines 189-208 for the next name
NbaPlayer(r) ==
    /\ prog = "nba"
    /\ run[r].pc = "players"
    /\ Turn(r)
    /\ \E player_id \in PlayerIdResults, points \in PointsResults, http_ok \in BOOLEAN :
          LET rec == [run[r] EXCEPT !.left = run[r].left - 1]
              key == <<player_id, points>>
              c == NbaCheck(rec.sent, key, rec.now)
              pattern == Classify(points)
              delivered == Delivered(cfg, http_ok)
          IN  IF player_id = 0 \/ points = <<>>
              THEN /\ run' = [run EXCEPT ![r] = NbaAdvance(rec)]
                   /\ UNCHANGED <<okLog, failLog>>
              ELSE IF c = "raise"
              THEN /\ run' = [run EXCEPT ![r] = Raise(rec, "cache")]
                   /\ UNCHANGED <<okLog, failLog>>
              ELSE IF c = "suppressed" \/ pattern = "None"
              THEN /\ run' = [run EXCEPT ![r] = NbaAdvance(rec)]
                   /\ UNCHANGED <<okLog, failLog>>
              ELSE /\ run' = [run EXCEPT ![r] = NbaAdvance(
                               [rec EXCEPT !.sent = NbaAfterSend(rec.sent, key, rec.now, delivered)])]
                   /\ okLog' = OkLogAfter(okLog, r, rec.now,
                                           IF delivered THEN <<key>> ELSE <<>>)
                   /\ failLog' = FailLogAfter(failLog, r,
                                               IF delivered THEN <<key>> ELSE <<>>,
                                               IF delivered THEN {} ELSE {key})
    /\ UNCHANGED <<prog, cfg, clock, ticks, file, arg, res>>

\* lines 210-217: a failed write is swallowed
NbaSaveOutcomes(rec, f) ==
    {[file |-> Json(rec.sent), run |-> Exit([rec EXCEPT !.writes = rec.writes + 1], "done", "none")],
     [file |-> f, run |-> Exit(rec, "done", "none")],
     [file |-> Garbage, run |-> Exit(rec, "done", "none")]}

NbaSave(r) ==
    /\ prog = "nba"
    /\ run[r].pc = "save"
    /\ \E o \in NbaSaveOutcomes(run[r], file) :
          /\ file' = o.file
          /\ run' = [run EXCEPT ![r] = o.run]
    /\ UNCHANGED <<prog, cfg, clock, ticks, okLog, failLog, arg, res>>

(***************************************************************************)
(* Specifications.  Spec: the scheduler starts a run only when no other    *)
(* run is in progress.  SpecOverlap: runs of one scanner may overlap.      *)
(***************************************************************************)
Steps(r) == Fetch(r) \/ ScanEvent(r) \/ Save(r) \/ NbaPlayer(r) \/ NbaSave(r)

Next ==
    \/ Tick
    \/ \E r \in Runs : ConfigAbort(r, TRUE) \/ Load(r, TRUE) \/ NbaLoad(r, TRUE) \/ Steps(r)

Spec == Init /\ [][Next]_vars

NextOverlap ==
    \/ Tick
    \/ \E r \in Runs : ConfigAbort(r, FALSE) \/ Load(r, FALSE) \/ NbaLoad(r, FALSE) \/ Steps(r)

SpecOverlap == Init /\ [][NextOverlap]_vars

(***************************************************************************)
(* Pure functions: the input is drawn at Init, one action applies the      *)
(* function.                                                               *)
(***************************************************************************)
PointValues == {19, 20, 21}
RECURSIVE SeqsUpTo(_, _)
SeqsUpTo(S, n) ==
    IF n = 0 THEN {<<>>}
    ELSE LET shorter == SeqsUpTo(S, n - 1)
         IN  shorter \cup {Append(q, x) : q \in {t \in shorter : Len(t) = n - 1}, x \in S}

QuoteBooks == {"pinnacle", "betfair_exchange", "bet365", "unibet", "bwin"}
QuotePrices == {NoPrice, Num(0, 1), Num(1, 1), Num(2, 1), Num(5, 2)}
\* insertion-ordered dicts of at most MaxQuotes quotes
BookLines ==
    {bl \in UNION {[1..n -> QuoteBooks \X QuotePrices] : n \in 0..MaxQuotes} :
        \A i, j \in 1..Len(bl) : i # j => bl[i][1] # bl[j][1]}

\* a cooldown test: the scanner, the clock reading and the entry of the
\* key (had: whether the mapping holds one; age: now - entry)
CheckAges(cd) == {0, 1, cd - 1, cd, cd + 1}
CheckInputs ==
    {c \in [scanner : {"odds", "nba"}, now : {100, 5400, 43200, 1700000000}, had : BOOLEAN,
            age : CheckAges(COOLDOWN_MINUTES * 60) \cup CheckAges(cooldown_seconds)] :
        c.age <= c.now}

CheckSent(c) ==
    IF c.had THEN Record(EmptyMap, IF c.scanner = "nba" THEN KeyFive ELSE KeyValue, c.now - c.age)
    ELSE EmptyMap

\* kelly_fraction inputs
KellyPrices == {<<0, 1>>, <<1, 2>>, <<1, 1>>, <<101, 100>>, <<3, 2>>, <<2, 1>>, <<5, 2>>, <<10, 1>>}
KellyProbs == {<<0, 1>>, <<1, 10>>, <<1, 4>>, <<2, 5>>, <<1, 2>>, <<3, 5>>, <<1, 1>>}

\* event_key inputs: pairs of tuples that are equal or differ in one field
KeyFields == {"ev_id", "book", "pick_name", "price", "fair_prob", "basis"}
KeyPrices == {<<3, 2>>, <<5, 2>>, <<25001, 10000>>, <<12502, 5000>>, <<12503, 5000>>,
              <<2501, 1000>>}
KeyProbs == {<<1, 2>>, <<9, 19>>, <<1, 1000>>, <<1, 1001>>}
KeyTuples ==
    [ev_id : {"e1", "e2"}, book : {"bet365", "unibet"}, pick_name : {"A", "B"},
     price : KeyPrices, fair_prob : KeyProbs, basis : {"pinnacle", "consensus"}]
Differing(a, b) == {f \in KeyFields : a[f] # b[f]}
KeyPairs ==
    UNION {{<<a, [a EXCEPT !.ev_id = v]>> : v \in {"e1", "e2"}}
           \cup {<<a, [a EXCEPT !.book = v]>> : v \in {"bet365", "unibet"}}
           \cup {<<a, [a EXCEPT !.pick_name = v]>> : v \in {"A", "B"}}
           \cup {<<a, [a EXCEPT !.price = v]>> : v \in KeyPrices}
           \cup {<<a, [a EXCEPT !.fair_prob = v]>> : v \in KeyProbs}
           \cup {<<a, [a EXCEPT !.basis = v]>> : v \in {"pinnacle", "consensus"}} :
           a \in KeyTuples}

\* one event scanned at a clock reading
ScanNows == {1700000000, 1700000001}
ScanInputs == [ev : ScanEvents, now : ScanNows]

\* what one process does with the event: the exception that left run_scan
\* (if any), the keys delivered in order and the mapping
ScanResult(pre, st) ==
    [err |-> IF pre.st = "raise" THEN pre.err ELSE st.err, oks |-> st.oks, sent |-> st.sent]

ScanItems(pre, now) ==
    ScanResult(pre, RunSlots(pre.items, 1,
                             [sent |-> EmptyMap, oks |-> <<>>, fails |-> {}, err |-> "none"],
                             now, [i \in 1..Len(pre.items) |-> TRUE]))

ScanOnce(ev, now, swap) == ScanItems(Prelude(ev, now, swap), now)

InitPure ==
    /\ prog = "pure"
    /\ cfg = "ok"
    /\ clock = 0
    /\ ticks = 0
    /\ file = Absent
    /\ run = [r \in Runs |-> IdleRun]
    /\ okLog = EmptyBag
    /\ failLog = {}
    /\ \/ arg \in {[f |-> "classify", x |-> q] : q \in SeqsUpTo(PointValues, MaxSeqLen)}
       \/ arg \in {[f |-> "pick", x |-> bl] : bl \in BookLines}
       \/ arg \in {[f |-> "check", x |-> c] : c \in CheckInputs}
       \/ arg \in {[f |-> "kelly", x |-> z] : z \in KellyPrices \X KellyProbs}
       \/ arg \in {[f |-> "key", x |-> z] : z \in KeyPairs}
       \/ arg \in {[f |-> "scan", x |-> z] : z \in ScanInputs}
    /\ res = <<>>

ApplyClassify ==
    /\ prog = "pure" /\ res = <<>> /\ arg.f = "classify"
    /\ res' = <<Classify(arg.x)>>
    /\ UNCHANGED <<prog, cfg, clock, ticks, file, run, okLog, failLog, arg>>

ApplyPick ==
    /\ prog = "pure" /\ res = <<>> /\ arg.f = "pick"
    /\ res' = <<pick_fair_prob(arg.x)>>
    /\ UNCHANGED <<prog, cfg, clock, ticks, file, run, okLog, failLog, arg>>

ApplyCheck ==
    /\ prog = "pure" /\ res = <<>> /\ arg.f = "check"
    /\ res' = <<IF arg.x.scanner = "nba"
                THEN NbaCheck(CheckSent(arg.x), KeyFive, arg.x.now)
                ELSE SentCheck(CheckSent(arg.x), KeyValue, arg.x.now)>>
    /\ UNCHANGED <<prog, cfg, clock, ticks, file, run, okLog, failLog, arg>>

\* kelly_fraction(price, fair_prob)
ApplyKelly ==
    /\ prog = "pure" /\ res = <<>> /\ arg.f = "kelly"
    /\ res' = <<kelly_fraction(arg.x[1], arg.x[2])>>
    /\ UNCHANGED <<prog, cfg, clock, ticks, file, run, okLog, failLog, arg>>

\* event_key applied to two input tuples
ApplyKey ==
    /\ prog = "pure" /\ res = <<>> /\ arg.f = "key"
    /\ res' = [i \in 1..2 |->
                 event_key(arg.x[i].ev_id, arg.x[i].book, arg.x[i].pick_name,
                           arg.x[i].price, arg.x[i].fair_prob, arg.x[i].basis)]
    /\ UNCHANGED <<prog, cfg, clock, ticks, file, run, okLog, failLog, arg>>

\* lines 154-244 for one event, in two processes given the same event, the
\* same clock reading, an empty mapping and a Telegram that accepts every
\* message; each process has its own iteration order of the participants
ApplyScan ==
    /\ prog = "pure" /\ res = <<>> /\ arg.f = "scan"
    /\ \E first, second \in BOOLEAN :
          res' = [j \in 1..2 |-> ScanOnce(arg.x.ev, arg.x.now, <<first, second>>[j])]
    /\ UNCHANGED <<prog, cfg, clock, ticks, file, run, okLog, failLog, arg>>

NextPure == ApplyClassify \/ ApplyPick \/ ApplyCheck \/ ApplyKelly \/ ApplyKey \/ ApplyScan

SpecPure == InitPure /\ [][NextPure]_vars

(***************************************************************************)
(* Properties.                                                             *)
(***************************************************************************)
Delivery(r, k, t) == [r |-> r, k |-> k, t |-> t]
Deliveries == BagToSet(okLog)
Dist(a, b) == IF a < b THEN b - a ELSE a - b
Entry(sent, k) == IF HasKey(sent, k) THEN <<sent.m[k], k \in sent.bad>> ELSE <<>>
KeysOf(sent) == IF sent.kind = "map" THEN DOMAIN sent.m ELSE {}
InLoop(rec) == rec.pc \in {"sports", "events", "players", "save"}

\* C1: odds scanner, non-overlapping runs, whatever fetch errors, malformed
\* events or dispatch errors occur (no failure of the cache file itself):
\* two deliveries of one fingerprint are made in runs whose clock readings
\* are at least the cooldown apart, and one run delivers a fingerprint at
\* most once.
C1_OncePerCooldown ==
    (prog = "odds" /\ \A r \in Runs : run[r].err \notin {"cache", "save"}) =>
        \A d \in Deliveries :
            /\ CopiesIn(d, okLog) <= 1
            /\ \A e \in Deliveries :
                  (d.k = e.k /\ d.r # e.r) => Dist(d.t, e.t) >= COOLDOWN_MINUTES * 60

\* C2: odds scanner: a step changes the entry of a fingerprint in the
\* in-memory mapping only by setting it to the run's clock reading after a
\* delivery of that fingerprint in that step (a send that raises leaves the
\* entry as it was), and a candidate whose send raised in the previous run
\* without being delivered there is not suppressed in the next run.
C2_EntryOnlyOnDelivery ==
    \A r \in Runs :
        (prog = "odds" /\ InLoop(run[r]) /\ InLoop(run'[r])) =>
            \A k \in KeysOf(run[r].sent) \cup KeysOf(run'[r].sent) :
                Entry(run'[r].sent, k) # Entry(run[r].sent, k) =>
                    /\ Entry(run'[r].sent, k) = <<run[r].now, FALSE>>
                    /\ CopiesIn(Delivery(r, k, run[r].now), okLog')
                          > CopiesIn(Delivery(r, k, run[r].now), okLog)

C2_RetriedNextRun ==
    \A r \in Runs :
        (prog = "odds" /\ r > 1 /\ InLoop(run[r])) =>
            \A f \in failLog :
                (f.r = r - 1 /\ \A d \in Deliveries : ~(d.r = r /\ d.k = f.k)) =>
                    SentCheck(run[r].sent, f.k, run[r].now) # "suppressed"

C2_DispatchFailure == [][C2_EntryOnlyOnDelivery /\ C2_RetriedNextRun']_vars

\* C2 witness: a send raised in run 1, which went on to deliver another
\* alert and to save; run 2 meets the loaded cache without an entry that
\* would suppress the failed candidate.
C2_Witness ==
    /\ prog = "odds"
    /\ run[1].pc = "done" /\ run[1].writes = 1
    /\ run[2].pc = "events"
    /\ \E f \in failLog :
          /\ f.r = 1
          /\ \E d \in Deliveries : d.r = 1 /\ d.k # f.k /\ HasKey(run[2].sent, d.k)
          /\ ~HasKey(run[2].sent, f.k)
          /\ SentCheck(run[2].sent, f.k, run[2].now) = "send"

\* C3: statistics scanner: a step writes the entry of a key only after the
\* notification for that key was delivered in that step.
C3_NbaEntryOnlyOnDelivery ==
    [][\A r \in Runs :
          (prog = "nba" /\ InLoop(run[r]) /\ InLoop(run'[r])) =>
              \A k \in KeysOf(run[r].sent) \cup KeysOf(run'[r].sent) :
                  Entry(run'[r].sent, k) # Entry(run[r].sent, k) =>
                      CopiesIn(Delivery(r, k, run[r].now), okLog')
                          > CopiesIn(Delivery(r, k, run[r].now), okLog)]_vars

\* C4: odds scanner, valid configuration: no failure of a fetch, of an
\* event record or of a dispatch ends the run, and a run that ends has
\* written the cache file exactly once.
C4_ItemFailureIsolated ==
    \A r \in Runs :
        (prog = "odds" /\ cfg = "ok") =>
            /\ ~(run[r].pc = "raised" /\ run[r].err = "event")
            /\ run[r].pc = "done" => run[r].writes = 1

\* C5: in both scanners the cooldown test suppresses exactly when the
\* mapping holds an entry for the key and now - entry < cooldown.
C5_SuppressedIffRecentEntry ==
    (prog = "pure" /\ arg.f = "check" /\ res # <<>>) =>
        LET cd == IF arg.x.scanner = "nba" THEN 12 * 3600 ELSE 90 * 60
        IN  (res[1] = "suppressed") <=> (arg.x.had /\ arg.x.age < cd)

\* C6: in both scanners a run that found the cache file absent or
\* malformed works on an empty mapping, and no run is ended by an error
\* caused by the content of the cache.
C6_MalformedCacheIsEmpty ==
    \A r \in Runs :
        /\ run[r].err # "cache"
        /\ InLoop(run[r]) => run[r].sent.kind = "map" /\ run[r].sent.bad = {}

\* C7: in both scanners a failed write of the cache file does not end the
\* run with an error.
C7_SaveFailureCaught == \A r \in Runs : run[r].err # "save"

\* C8: overlapping runs: a completed write replaces the persisted cache by
\* the in-memory mapping of the writing run, whatever the file held (the
\* later save overwrites the earlier one).
C8_SaveOverwrites ==
    [][\A r \in Runs :
          (run[r].pc = "save" /\ run'[r].writes = run[r].writes + 1) =>
              file' = Json(run[r].sent)]_vars

\* C8 witness: two runs that both wrote the cache delivered the same
\* fingerprint within the cooldown, and an entry that one of them recorded
\* and wrote is missing from the persisted cache.
C8_Witness ==
    /\ \A r \in {1, 2} : run[r].pc = "done" /\ run[r].writes = 1
    /\ \E d, e \in Deliveries :
          d.r = 1 /\ e.r = 2 /\ d.k = e.k /\ Dist(d.t, e.t) < Cooldown
    /\ file.st = "json"
    /\ \E d \in Deliveries : d.r \in {1, 2} /\ ~HasKey(file.doc, d.k)

\* C9: the pattern is sustained-five exactly for 5 values none below 20,
\* four-then-drop exactly for 5 values of which only the last is below 20,
\* none otherwise (also for fewer or more than 5 values); the two
\* predicates never both hold.
Below20(p) == {i \in 1..Len(p) : p[i] < 20}

C9_PatternClassification ==
    (prog = "pure" /\ arg.f = "classify" /\ res # <<>>) =>
        LET p == arg.x
            five == Len(p) = 5 /\ Below20(p) = {}
            drop == Len(p) = 5 /\ Below20(p) = {5}
        IN  /\ res[1] = "5 jogos consecutivos com 20+ pontos" <=> five
            /\ res[1] = "4 jogos com 20+ seguidos de um <20" <=> drop
            /\ res[1] = "None" <=> (~five /\ ~drop)
            /\ ~(qualifies_pattern_a(p) /\ qualifies_pattern_b(p))

\* C9 witness: a four-then-drop sequence was classified
C9_Witness ==
    /\ prog = "pure" /\ arg.f = "classify" /\ res # <<>>
    /\ arg.x = <<21, 20, 21, 20, 19>>
    /\ res[1] = "4 jogos com 20+ seguidos de um <20"

\* C10: pick_fair_prob returns the first source of [pinnacle,
\* betfair_exchange] that quotes a price > 1.0 with 1/price, else
\* "consensus" with the mean of 1/price over the prices > 1.0, else the
\* sentinel ("", 0).
ValidQuotes(bl) == {i \in 1..Len(bl) : bl[i][2].t = "num" /\ bl[i][2].v[1] > bl[i][2].v[2]}
QuoteOf(bl, b) == {i \in ValidQuotes(bl) : bl[i][1] = b}

RECURSIVE SumInverse(_, _)
SumInverse(bl, I) ==
    IF I = {} THEN RatZero
    ELSE LET i == CHOOSE j \in I : TRUE
         IN  RatAdd(<<bl[i][2].v[2], bl[i][2].v[1]>>, SumInverse(bl, I \ {i}))

C10_PickFairProb ==
    (prog = "pure" /\ arg.f = "pick" /\ res # <<>>) =>
        LET bl == arg.x
            out == res[1]
            first == IF QuoteOf(bl, "pinnacle") # {} THEN "pinnacle"
                     ELSE IF QuoteOf(bl, "betfair_exchange") # {} THEN "betfair_exchange"
                     ELSE ""
        IN  /\ out.st = "ok"
            /\ IF first # ""
               THEN \E i \in QuoteOf(bl, first) :
                       /\ out.basis = first
                       /\ RatMul(out.fair, bl[i][2].v) = RatOne
               ELSE IF ValidQuotes(bl) # {}
               THEN /\ out.basis = "consensus"
                    /\ RatMul(out.fair, <<Cardinality(ValidQuotes(bl)), 1>>)
                          = SumInverse(bl, ValidQuotes(bl))
               ELSE out.basis = "" /\ out.fair = RatZero

\* C10 witness: pinnacle quotes no valid price, betfair_exchange does and
\* wins over a third valid quote
C10_Witness ==
    /\ prog = "pure" /\ arg.f = "pick" /\ res # <<>>
    /\ arg.x = << <<"bet365", Num(5, 2)>>, <<"betfair_exchange", Num(2, 1)>>,
                  <<"pinnacle", Num(1, 1)>> >>
    /\ res[1] = PickOk("betfair_exchange", <<1, 2>>)

\* C11: odds scanner: every alert delivered for an event has a source of
\* the target set, a quoted price >= 1.50, an edge price * fair - 1 >= 3%
\* with fair the estimate of its outcome divided by the sum of the two
\* estimates, and an event that starts at most 48 hours after the clock
\* reading of the run.
FairOf(ev, name) == pick_fair_prob(PricesFor(Lines(ev), name)).fair
NormFair(ev, name) ==
    LET other == CHOOSE n \in Participants(Lines(ev)) : n # name
    IN  RatDiv(FairOf(ev, name), RatAdd(FairOf(ev, name), FairOf(ev, other)))

PassesFilters(ev, now, k) ==
    /\ ev.commence.t = "aware"
    /\ ev.commence.v - now <= 48 * 3600
    /\ k[1] = ev.id
    /\ k[2] \in TARGET_BOOKS
    /\ \E i \in 1..Len(ev.lines) :
          /\ ev.lines[i][1] = k[2]
          /\ k[3] \in DOMAIN ev.lines[i][2]
          /\ LET p == ev.lines[i][2][k[3]]
                 fair == NormFair(ev, k[3])
             IN  /\ p.t = "num"
                 /\ 2 * p.v[1] >= 3 * p.v[2]
                 /\ RatLe(<<103, 100>>, RatMul(p.v, fair))
                 /\ k[4] = Fmt(p.v, 3)
                 /\ k[5] = Fmt(fair, 5)

C11_DispatchedPassFilters ==
    (prog = "pure" /\ arg.f = "scan" /\ res # <<>>) =>
        \A j \in 1..2 : \A i \in 1..Len(res[j].oks) :
            PassesFilters(arg.x.ev, arg.x.now, res[j].oks[i])

\* C11 witness: of two target sources of an event whose sharp quotes carry
\* a margin, the one whose edge is >= 3% only before the normalisation is
\* not delivered and the other is; and an event that starts exactly 48
\* hours after the clock reading is delivered.
C11_Witness ==
    /\ prog = "pure" /\ arg.f = "scan" /\ res # <<>>
    /\ \/ /\ arg.x.ev = EvMargin
          /\ res[1].oks = <<event_key("e7", "williamhill", "A", <<11, 5>>, <<9, 19>>, "pinnacle")>>
       \/ /\ arg.x.ev = EvLate /\ arg.x.now = 1700000001
          /\ res[1].oks = <<event_key("e6", "bet365", "A", <<5, 2>>, <<1, 2>>, "pinnacle")>>

\* C12 (as stated): identical inputs of event_key yield the identical
\* string and two input tuples that differ in one field yield different
\* strings.
C12_KeyInjective ==
    (prog = "pure" /\ arg.f = "key" /\ res # <<>>) =>
        /\ arg.x[1] = arg.x[2] => res[1] = res[2]
        /\ Differing(arg.x[1], arg.x[2]) # {} => res[1] # res[2]

\* C12 (amended): the string carries the four text fields verbatim, the
\* price as its nearest multiple of 0.001 and the fair probability as its
\* nearest multiple of 0.00001; identical inputs yield the identical
\* string; tuples that differ in one text field yield different strings;
\* tuples that differ in the price (the probability) only yield the same
\* string exactly when both values have the same nearest multiple.
Nearest(x, unit, n) == 2 * Abs(x[1] * unit - n * x[2]) <= x[2]
SameRendering(x, y, unit, cands) == \E n \in cands : Nearest(x, unit, n) /\ Nearest(y, unit, n)

C12_KeyInjectiveAfterRendering ==
    (prog = "pure" /\ arg.f = "key" /\ res # <<>>) =>
        LET a == arg.x[1]
            b == arg.x[2]
            d == Differing(a, b)
        IN  /\ \A i \in 1..2 :
                  /\ <<res[i][1], res[i][2], res[i][3], res[i][6]>>
                        = <<arg.x[i].ev_id, arg.x[i].book, arg.x[i].pick_name, arg.x[i].basis>>
                  /\ Nearest(arg.x[i].price, 1000, res[i][4])
                  /\ Nearest(arg.x[i].fair_prob, 100000, res[i][5])
            /\ d = {} => res[1] = res[2]
            /\ d \cap {"ev_id", "book", "pick_name", "basis"} # {} => res[1] # res[2]
            /\ d = {"price"} =>
                  (res[1] = res[2] <=> SameRendering(a.price, b.price, 1000, {res[1][4], res[2][4]}))
            /\ d = {"fair_prob"} =>
                  (res[1] = res[2] <=>
                      SameRendering(a.fair_prob, b.fair_prob, 100000, {res[1][5], res[2][5]}))

\* C12 witness: the prices 2.5 and 2.5004 of two otherwise equal tuples are
\* both rendered 2.500 and the strings are the same.
C12_Witness ==
    /\ prog = "pure" /\ arg.f = "key" /\ res # <<>>
    /\ arg.x[1].price = <<5, 2>> /\ arg.x[2].price = <<12502, 5000>>
    /\ Differing(arg.x[1], arg.x[2]) = {"price"}
    /\ res[1] = res[2]
    /\ res[1][4] = 2500

\* C13: kelly_fraction(price, fair_prob) with fair_prob in [0, 1] is >= 0,
\* is 0 whenever price <= 1.0, and for price > 1.0 equals
\* max(0, ((price - 1) * fair_prob - (1 - fair_prob)) / (price - 1)).
C13_KellyFraction ==
    (prog = "pure" /\ arg.f = "kelly" /\ res # <<>>) =>
        LET price == arg.x[1]
            p == arg.x[2]
            out == res[1]
            \* the numerator of the quotient; for price > 1 it has its sign
            num == RatSub(RatMul(RatSub(price, RatOne), p), RatSub(RatOne, p))
        IN  /\ RatLe(RatZero, out)
            /\ RatLe(price, RatOne) => out = RatZero
            /\ RatLt(RatOne, price) =>
                  IF RatLt(RatZero, num)
                  THEN RatMul(out, RatSub(price, RatOne)) = num
                  ELSE out = RatZero

\* C13 witness: a positive stake (price 2.5, fair 1/2 gives 1/6) and a
\* floored one (price 2, fair 1/4 gives 0) were computed
C13_Witness ==
    /\ prog = "pure" /\ arg.f = "kelly" /\ res # <<>>
    /\ \/ arg.x = <<<<5, 2>>, <<1, 2>>>> /\ res[1] = <<1, 6>>
       \/ arg.x = <<<<2, 1>>, <<1, 4>>>> /\ res[1] = RatZero

\* C14: odds scanner: two runs given the same snapshot event, the same
\* loaded cache and the same clock reading deliver the same alerts in the
\* same order.
C14_StableOrder ==
    (prog = "pure" /\ arg.f = "scan" /\ res # <<>>) => res[1].oks = res[2].oks

\* C15: in both scanners, with a required configuration value missing, no
\* run gets past the start: nothing is scanned, nothing is delivered, the
\* in-memory mapping is not modified and the cache file is not written.
C15_MissingConfigAborts ==
    cfg # "ok" =>
        /\ \A r \in Runs :
              /\ run[r].pc \in {"idle", "aborted"}
              /\ run[r].sent = EmptyMap
              /\ run[r].writes = 0
        /\ okLog = EmptyBag

HasValidQuote(ev, name) ==
    \E i \in 1..Len(Lines(ev)) :
        LET p == DGet(Lines(ev)[i][2], name)
        IN  p.t = "num" /\ p.v[1] > p.v[2]

ZeroLeg(ev, now) ==
    /\ ev.commence.t = "aware"
    /\ ev.commence.v - now <= 48 * 3600
    /\ Cardinality(Participants(Lines(ev))) = 2
    /\ \A i \in 1..Len(ev.lines) : \A n \in DOMAIN ev.lines[i][2] : ev.lines[i][2][n].t # "str"
    /\ \E n \in Participants(Lines(ev)) : ~HasValidQuote(ev, n)

C17_ZeroLegSkipsEvent ==
    (prog = "pure" /\ arg.f = "scan" /\ res # <<>> /\ ZeroLeg(arg.x.ev, arg.x.now)) =>
        \A j \in 1..2 :
            res[j] = [err |-> "none", oks |-> <<>>, sent |-> EmptyMap]

\* C17 witness: outcome B has no quote above 1.0 while outcome A has a
\* sharp quote of 2.0 and a target quote of 2.5 (an edge of 25% at fair
\* 1/2); nothing was delivered.
C17_Witness ==
    /\ prog = "pure" /\ arg.f = "scan" /\ res # <<>>
    /\ arg.x.ev \in {EvOneLeg, EvFlatLeg}
    /\ ZeroLeg(arg.x.ev, arg.x.now)
    /\ HasValidQuote(arg.x.ev, "A") /\ ~HasValidQuote(arg.x.ev, "B")
    /\ FairOf(arg.x.ev, "A") = <<1, 2>>
    /\ res[1].oks = <<>> /\ res[1].sent = EmptyMap

\* C18: both scanners, non-overlapping runs: a step of the loops keeps every
\* key of the in-memory mapping, with its timestamp unchanged or replaced
\* by the clock reading of the run; and a completed save writes a mapping
\* that holds every key of the mapping loaded by the run, each entry either
\* as loaded or set to the clock reading of the run for a key whose alert
\* was dispatched in the run (entries older than the cooldown included:
\* none is removed).
Attempted(r) ==
    {d.k : d \in {e \in Deliveries : e.r = r}} \cup {f.k : f \in {g \in failLog : g.r = r}}

C18_LoopKeepsEntries ==
    \A r \in Runs :
        (InLoop(run[r]) /\ InLoop(run'[r])) =>
            /\ run'[r].sent.kind = run[r].sent.kind
            /\ \A k \in KeysOf(run[r].sent) :
                  /\ k \in KeysOf(run'[r].sent)
                  /\ \/ Entry(run'[r].sent, k) = Entry(run[r].sent, k)
                     \/ Entry(run'[r].sent, k) = <<run[r].now, FALSE>>

C18_SaveKeepsEntries ==
    \A r \in Runs :
        (run[r].pc = "save" /\ run'[r].writes = run[r].writes + 1) =>
            LET old == LoadCache(file)
                new == file'.doc
            IN  /\ file'.st = "json"
                /\ KeysOf(old) \subseteq KeysOf(new)
                /\ \A k \in KeysOf(new) :
                      \/ Entry(new, k) = Entry(old, k)
                      \/ /\ Entry(new, k) = <<run[r].now, FALSE>>
                         /\ k \in Attempted(r)

C18_MappingOnlyGrows == [][C18_LoopKeepsEntries /\ C18_SaveKeepsEntries]_vars

\* C18 witness: run 2 started a full cooldown after run 1, delivered an
\* alert of its own and saved; the persisted mapping holds the entry of
\* run 1 with the timestamp of run 1 next to the entry of run 2.
C18_Witness ==
    /\ run[2].pc = "done" /\ run[2].writes = 1
    /\ file.st = "json" /\ file.doc.kind = "map"
    /\ \E d, e \in Deliveries :
          /\ d.r = 1 /\ e.r = 2 /\ d.k # e.k
          /\ e.t - d.t >= Cooldown
          /\ Entry(file.doc, d.k) = <<d.t, FALSE>>
          /\ Entry(file.doc, e.k) = <<e.t, FALSE>>

====
